---- MODULE Spec2Model ----
(***************************************************************************)
(* Model of pythainlp's dictionary-based word segmentation                 *)
(* (pythainlp/tokenize/newmm.py: _bfs_paths_graph, _onecut, segment) and   *)
(* of the numeral reader (pythainlp/util/numtoword.py: num_to_thaiword).   *)
(*                                                                         *)
(* A text is a sequence of one-character strings.  Python offsets are      *)
(* 0-based and slices are half-open: text[p:q] is Slice(text, p, q).       *)
(* The characters of the model stand for the character classes the code    *)
(* distinguishes:                                                          *)
(*   "k"  a Thai consonant, in the range of _PAT_TWOCHARS                  *)
(*   "i"  a Thai dependent vowel: it joins the consonant before it into    *)
(*        one character cluster, and is outside the range of _PAT_TWOCHARS *)
(*   "a"  a Latin letter, "1" a digit, " " a space                         *)
(***************************************************************************)
EXTENDS Integers, Sequences, FiniteSets, TLC

\* ------------------------------------------------------------------ bounds
\* The longest input text.
MaxLen == 3

\* The most blocks of one character a long text is made of.
MaxBlocks == 2

\* ------------------------------------------------- constants of the program
\* Chunk size and scan window of safe mode: _TEXT_LIMIT, _TEXT_SCAN_LEFT and
\* _TEXT_SCAN_RIGHT as the program sets them.
PROGRAM_LIMITS == [TEXT_LIMIT |-> 120, TEXT_SCAN_LEFT |-> 20, TEXT_SCAN_RIGHT |-> 20]

\* The same three constants with their roles and their order (0 < left
\* window < limit) kept, at a scale at which texts of length MaxLen are
\* chunked.
SCALED_LIMITS == [TEXT_LIMIT |-> 2, TEXT_SCAN_LEFT |-> 1, TEXT_SCAN_RIGHT |-> 1]

\* The constants a behaviour runs with; no step changes them.
VARIABLE limits

TEXT_LIMIT == limits.TEXT_LIMIT
TEXT_SCAN_LEFT == limits.TEXT_SCAN_LEFT
TEXT_SCAN_RIGHT == limits.TEXT_SCAN_RIGHT

\* ------------------------------------------------------- character classes
THAI_CONS == {"k"}
THAI_FOLLOW == {"i"}
LATIN == {"a", "-"}
DIGIT == {"1"}
NUMBER_TAIL == {"1", ",", "."}
BLANK == {" ", "\t"}
LF == "\n"
CR == "\r"

Alphabet == {"k", "i", "a", "1", " "}

Texts == UNION {[1..n -> Alphabet] : n \in 0..MaxLen}

\* The long texts: up to MaxBlocks blocks, each one character repeated.  The
\* lengths give texts below, at and above the length 140 at which the
\* chunking loop starts, put a block border at both ends of the scan window
\* text[100:140], and make the loop turn more than once.
BlockChars == {"k", "a", " "}

BlockLens == {1, 101, 139}

Block(c, n) == [j \in 1..n |-> c]

RECURSIVE BlockTexts(_)
BlockTexts(n) ==
    IF n = 0 THEN {<<>>}
    ELSE {b \o t : b \in {Block(c, m) : c \in BlockChars, m \in BlockLens},
                   t \in BlockTexts(n - 1)}

LongTexts == UNION {BlockTexts(n) : n \in 1..MaxBlocks}

\* The words a dictionary of the model may hold.
Words == {<<"k">>, <<"k", "k">>, <<"k", "i">>}

\* The process-wide default dictionary.
DEFAULT_DICT_TRIE == {<<"k", "k">>, <<"k", "i">>}

\* --------------------------------------------------------- Python helpers
Min(S) == CHOOSE x \in S : \A y \in S : x <= y

Smaller(a, b) == IF a < b THEN a ELSE b

\* text[p:q], clipped to the text as Python clips a slice.
Slice(t, p, q) ==
    LET lo == Smaller(p, Len(t))
        hi == Smaller(q, Len(t))
    IN  IF hi <= lo THEN <<>> ELSE SubSeq(t, lo + 1, hi)

\* x in q, for a list q.
InSeq(x, s) == \E j \in DOMAIN s : s[j] = x

RECURSIVE Concat(_)
\* "".join(tokens)
Concat(ts) == IF ts = <<>> THEN <<>> ELSE Head(ts) \o Concat(Tail(ts))

\* The length of the longest prefix of t made of characters of S.
RunLen(t, S) ==
    LET others == {j \in DOMAIN t : t[j] \notin S}
    IN  IF others = {} THEN Len(t) ELSE Min(others) - 1

\* PAT_ENG with every run cut to one character (the + and * left out).
PAT_ENG_one(t) ==
    IF t = <<>> THEN 0
    ELSE IF Head(t) \in LATIN \cup DIGIT \cup BLANK \cup {LF} THEN 1
    ELSE IF Len(t) >= 2 /\ t[1] = CR /\ t[2] = LF THEN 2
    ELSE 0

\* _PAT_ENG.match(t): the end of the match, 0 when there is none (no
\* alternative of the pattern matches the empty string).
PAT_ENG(t) ==
    IF t = <<>> THEN 0
    ELSE IF Head(t) \in LATIN THEN RunLen(t, LATIN)
    ELSE IF Head(t) \in DIGIT THEN 1 + RunLen(Tail(t), NUMBER_TAIL)
    ELSE IF Head(t) \in BLANK THEN RunLen(t, BLANK)
    ELSE IF Head(t) = LF THEN 1
    ELSE IF Len(t) >= 2 /\ t[1] = CR /\ t[2] = LF THEN 2
    ELSE 0

\* _PAT_TWOCHARS.match(w): at most two Thai consonants, then the end of the
\* word ($ also matches before one trailing line feed).
PAT_TWOCHARS(w) ==
    \E n \in 0..2 :
        /\ n <= Len(w)
        /\ \A j \in 1..n : w[j] \in THAI_CONS
        /\ \/ n = Len(w)
           \/ n = Len(w) - 1 /\ w[Len(w)] = LF

\* tcc_pos(text), the Boundary Oracle: the offsets at which a cut is legal.
\* A dependent vowel right after a consonant is inside that consonant's
\* cluster; 0 and len(text) are always legal.
tcc_pos(t) ==
    {0, Len(t)} \cup
    {p \in 1..(Len(t) - 1) : ~(t[p + 1] \in THAI_FOLLOW /\ t[p] \in THAI_CONS)}

RECURSIVE SortAsc(_)
SortAsc(S) == IF S = {} THEN <<>> ELSE <<Min(S)>> \o SortAsc(S \ {Min(S)})

\* custom_dict.prefixes(t), the Prefix Dictionary: every word of the
\* dictionary that is a prefix of t, shortest first when ord = "asc",
\* longest first when ord = "desc".
prefixes(dict, ord, t) ==
    LET asc == SortAsc({n \in 1..Len(t) : SubSeq(t, 1, n) \in dict})
    IN  [j \in 1..Len(asc) |->
            SubSeq(t, 1, IF ord = "asc" THEN asc[j] ELSE asc[Len(asc) + 1 - j])]

\* heappush(q, x): the heap is kept as the sorted list of its items (q[0] is
\* its least item, heappop removes it); a pushed item is not deduplicated.
heappush(q, x) ==
    LET k == Cardinality({j \in DOMAIN q : q[j] <= x})
    IN  SubSeq(q, 1, k) \o <<x>> \o SubSeq(q, k + 1, Len(q))

RECURSIVE bfs_queue_lifo(_, _, _)
\* bfs_queue with queue.pop() for queue.pop(0): the path added last is
\* expanded first.
bfs_queue_lifo(graph, queue, goal) ==
    IF queue = <<>> THEN <<>>
    ELSE LET path == queue[Len(queue)]
             adj == graph[path[Len(path)]]
         IN  IF InSeq(goal, adj) THEN Append(path, goal)
             ELSE bfs_queue_lifo(graph,
                                 SubSeq(queue, 1, Len(queue) - 1)
                                     \o [j \in 1..Len(adj) |-> Append(path, adj[j])],
                                 goal)

RECURSIVE bfs_queue(_, _, _)
\* The loop of _bfs_paths_graph up to its first yield: queue holds the paths
\* waiting, each ending in its vertex.  <<>> when the search is exhausted
\* without a yield.
bfs_queue(graph, queue, goal) ==
    IF queue = <<>> THEN <<>>
    ELSE LET path == Head(queue)
             adj == graph[path[Len(path)]]
         IN  IF InSeq(goal, adj) THEN Append(path, goal)
             ELSE bfs_queue(graph,
                            Tail(queue) \o [j \in 1..Len(adj) |-> Append(path, adj[j])],
                            goal)

\* next(_bfs_paths_graph(graph, start, goal))
bfs_paths_graph(graph, start, goal) == bfs_queue(graph, <<<<start>>>>, goal)

\* ------------------------------------------------------------------- state
VARIABLES
    arg,          \* the text argument: [isstr, truthy, val]
    dict_arg,     \* the custom_dict argument: [given, words]
    safe_mode,    \* the safe_mode argument of the call in progress
    order,        \* the order in which the Prefix Dictionary lists its words
    pc,           \* "idle", "while", "resolve", "chunk", "parts", "done", "error"
    text,         \* segment: text (cut down by the chunking loop)
    custom_dict,  \* segment: custom_dict after the default is substituted
    text_parts,   \* segment: text_parts
    sample,       \* segment: sample
    cut_pos,      \* segment: cut_pos
    tokens,       \* segment: tokens (the window's tokens, then the output)
    part_idx,     \* segment: the text part the last loop has reached
    result,       \* segment: the returned list
    caller,       \* which call of _onecut runs: "direct", "short", "sample", "part"
    otext,        \* _onecut: text
    allow_pos,    \* _onecut: allow_pos
    graph,        \* _onecut: graph
    q,            \* _onecut: q
    last_pos,     \* _onecut: last_pos
    pos,          \* _onecut: pos
    pp,           \* _onecut: pp, the path of the last commit
    yielded,      \* _onecut: the tokens yielded so far
    prev,         \* the previous call on the same arguments: [has, safe_mode, order, result]
    n_arg,        \* num_to_thaiword: the argument
    number,       \* num_to_thaiword: number
    divider_exp,  \* num_to_thaiword: divider is 10 ^ divider_exp (100000 down to 0.1)
    npos,         \* num_to_thaiword: pos
    ret,          \* num_to_thaiword: ret, as the list of the words joined
    nstack,       \* num_to_thaiword: the callers waiting for a recursive call
    npc           \* "call", "loop", "done", "error"

seg_vars == <<text, custom_dict, text_parts, sample, cut_pos, tokens, part_idx, result>>

cut_vars == <<otext, allow_pos, graph, q, last_pos, pos, pp, yielded>>

\* The state of num_to_thaiword.
num_vars == <<n_arg, number, divider_exp, npos, ret, nstack, npc>>

\* What no step inside a call of segment changes.
kept == <<arg, dict_arg, limits, safe_mode, order, prev, num_vars>>

vars == <<arg, dict_arg, limits, safe_mode, order, pc, text, custom_dict, text_parts,
          sample, cut_pos, tokens, part_idx, result, caller, otext, allow_pos,
          graph, q, last_pos, pos, pp, yielded, prev,
          n_arg, number, divider_exp, npos, ret, nstack, npc>>

\* graph = defaultdict(list)
EmptyGraph == [p \in 0..(Len(arg.val) + 1) |-> <<>>]

NoPrev == [has |-> FALSE, safe_mode |-> FALSE, order |-> "asc", result |-> <<>>]

TextArgs ==
    {[isstr |-> TRUE, truthy |-> t # <<>>, val |-> t] : t \in Texts} \cup
    {[isstr |-> FALSE, truthy |-> b, val |-> <<>>] : b \in BOOLEAN}

DictArgs ==
    {[given |-> TRUE, words |-> W] : W \in SUBSET Words} \cup
    {[given |-> FALSE, words |-> {}]}

\* The state of segment before its first call.
seg_idle ==
    /\ safe_mode = FALSE
    /\ order = "asc"
    /\ pc = "idle"
    /\ text = <<>>
    /\ custom_dict = {}
    /\ text_parts = <<>>
    /\ sample = <<>>
    /\ cut_pos = 0
    /\ tokens = <<>>
    /\ part_idx = 0
    /\ result = <<>>
    /\ caller = "direct"
    /\ otext = <<>>
    /\ allow_pos = {}
    /\ graph = EmptyGraph
    /\ q = <<>>
    /\ last_pos = 0
    /\ pos = 0
    /\ pp = <<>>
    /\ yielded = <<>>
    /\ prev = NoPrev

\* The state of num_to_thaiword when it is not in use.
num_idle ==
    /\ n_arg = 0
    /\ number = 0
    /\ divider_exp = 0
    /\ npos = 0
    /\ ret = <<>>
    /\ nstack = <<>>
    /\ npc = "done"

Init ==
    /\ arg \in TextArgs
    /\ dict_arg \in DictArgs
    /\ limits = SCALED_LIMITS
    /\ seg_idle
    /\ num_idle

\* ----------------------------------------------------------------- _onecut
\* onecut_begin with the yielded tokens kept in a list that outlives the call.
onecut_begin_shared(t, who) ==
    /\ otext' = t
    /\ allow_pos' = tcc_pos(t)
    /\ graph' = EmptyGraph
    /\ q' = <<0>>
    /\ last_pos' = 0
    /\ pos' = 0
    /\ pp' = <<>>
    /\ yielded' = yielded
    /\ caller' = who
    /\ pc' = "while"

\* onecut_begin with the emission cursor set one offset too far.
onecut_begin_cursor(t, who) ==
    /\ otext' = t
    /\ allow_pos' = tcc_pos(t)
    /\ graph' = EmptyGraph
    /\ q' = <<0>>
    /\ last_pos' = 1
    /\ pos' = 0
    /\ pp' = <<>>
    /\ yielded' = <<>>
    /\ caller' = who
    /\ pc' = "while"

\* The first lines of _onecut(t, custom_dict): fresh graph, boundary set,
\* frontier [0] and emission cursor 0.
onecut_begin(t, who) ==
    /\ otext' = t
    /\ allow_pos' = tcc_pos(t)
    /\ graph' = EmptyGraph
    /\ q' = <<0>>
    /\ last_pos' = 0
    /\ pos' = 0
    /\ pp' = <<>>
    /\ yielded' = <<>>
    /\ caller' = who
    /\ pc' = "while"

RECURSIVE add_candidates_edge_all(_, _, _, _, _)
\* add_candidates with graph[pos].append above the test of allow_pos: every
\* candidate adds an edge, a legal one also joins the frontier.
add_candidates_edge_all(ws, g, qq, p, allow) ==
    IF ws = <<>> THEN <<g, qq>>
    ELSE LET candidate_pos == p + Len(Head(ws))
         IN  add_candidates_edge_all(
                 Tail(ws),
                 [g EXCEPT ![p] = Append(@, candidate_pos)],
                 IF candidate_pos \notin allow \/ InSeq(candidate_pos, qq) THEN qq
                 ELSE heappush(qq, candidate_pos),
                 p, allow)

RECURSIVE add_candidates_push_all(_, _, _, _, _)
\* add_candidates with the push below the test of allow_pos: every candidate
\* joins the frontier, a legal one also adds an edge.
add_candidates_push_all(ws, g, qq, p, allow) ==
    IF ws = <<>> THEN <<g, qq>>
    ELSE LET candidate_pos == p + Len(Head(ws))
         IN  add_candidates_push_all(
                 Tail(ws),
                 IF candidate_pos \in allow
                 THEN [g EXCEPT ![p] = Append(@, candidate_pos)] ELSE g,
                 IF InSeq(candidate_pos, qq) THEN qq ELSE heappush(qq, candidate_pos),
                 p, allow)

RECURSIVE add_candidates_unchecked(_, _, _, _, _)
\* add_candidates without the test of allow_pos.
add_candidates_unchecked(ws, g, qq, p, allow) ==
    IF ws = <<>> THEN <<g, qq>>
    ELSE LET candidate_pos == p + Len(Head(ws))
         IN  add_candidates_unchecked(
                 Tail(ws),
                 [g EXCEPT ![p] = Append(@, candidate_pos)],
                 IF InSeq(candidate_pos, qq) THEN qq ELSE heappush(qq, candidate_pos),
                 p, allow)

RECURSIVE add_candidates_nodedup(_, _, _, _, _)
\* add_candidates without the test "candidate_pos not in q".
add_candidates_nodedup(ws, g, qq, p, allow) ==
    IF ws = <<>> THEN <<g, qq>>
    ELSE LET candidate_pos == p + Len(Head(ws))
         IN  IF candidate_pos \in allow
             THEN add_candidates_nodedup(
                      Tail(ws),
                      [g EXCEPT ![p] = Append(@, candidate_pos)],
                      heappush(qq, candidate_pos),
                      p, allow)
             ELSE add_candidates_nodedup(Tail(ws), g, qq, p, allow)

RECURSIVE add_candidates(_, _, _, _, _)
\* The for loop over the dictionary words that continue from p: each word
\* whose end is a legal cut adds an edge, and its end joins the frontier
\* unless it is already there.  Returns <<graph, q>>.
add_candidates(ws, g, qq, p, allow) ==
    IF ws = <<>> THEN <<g, qq>>
    ELSE LET candidate_pos == p + Len(Head(ws))
         IN  IF candidate_pos \in allow
             THEN add_candidates(
                      Tail(ws),
                      [g EXCEPT ![p] = Append(@, candidate_pos)],
                      IF InSeq(candidate_pos, qq) THEN qq ELSE heappush(qq, candidate_pos),
                      p, allow)
             ELSE add_candidates(Tail(ws), g, qq, p, allow)

\* One turn of the while loop up to the end of the for loop: pop the least
\* offset of the frontier and add its dictionary candidates.
Expand ==
    /\ pc = "while"
    /\ q # <<>>
    /\ q[1] < Len(otext)
    /\ LET p == Head(q)
           r == add_candidates(prefixes(custom_dict, order, Slice(otext, p, Len(otext))),
                               graph, Tail(q), p, allow_pos)
       IN  /\ pos' = p
           /\ graph' = r[1]
           /\ q' = r[2]
    /\ pc' = "resolve"
    /\ UNCHANGED <<kept, seg_vars, caller, otext, allow_pos, last_pos, pp, yielded>>

\* path_tokens without last_pos = pos: every token starts at the first offset.
path_tokens_nolast(t, path) ==
    [j \in 1..(Len(path) - 1) |-> Slice(t, path[1], path[j + 1])]

\* path_tokens with last_pos = pos before the yield: text[pos:pos].
path_tokens_swapped(t, path) ==
    [j \in 1..(Len(path) - 1) |-> Slice(t, path[j + 1], path[j + 1])]

\* The tokens of a path: text[pp[j]:pp[j+1]] for each edge.
path_tokens(t, path) ==
    [j \in 1..(Len(path) - 1) |-> Slice(t, path[j], path[j + 1])]

\* len(q) == 1: the frontier holds one offset; the first path the
\* breadth-first search finds from last_pos to it is emitted.  A search that
\* ends without a path makes next() fail.
Commit ==
    /\ pc = "resolve"
    /\ Len(q) = 1
    /\ LET path == bfs_paths_graph(graph, last_pos, q[1])
       IN  IF path = <<>>
           THEN /\ pc' = "error"
                /\ UNCHANGED <<pp, yielded, last_pos, pos>>
           ELSE /\ pp' = path
                /\ yielded' = yielded \o path_tokens(otext, path)
                /\ last_pos' = path[Len(path)]
                /\ pos' = path[Len(path)]
                /\ pc' = "while"
    /\ UNCHANGED <<kept, seg_vars, caller, otext, allow_pos, graph, q>>

\* The test of the scan at offset j: j is a legal cut, and a dictionary word
\* that _PAT_TWOCHARS does not match starts at j and ends at a legal cut, or
\* a non-Thai run starts at j.
scan_stop(t, dict, ord, allow, j) ==
    /\ j \in allow
    /\ \/ LET ws == prefixes(dict, ord, Slice(t, j, Len(t)))
          IN  \E n \in DOMAIN ws : (j + Len(ws[n])) \in allow /\ ~PAT_TWOCHARS(ws[n])
       \/ PAT_ENG(Slice(t, j, Len(t))) > 0

\* fallback_end with m.start() for m.end().
fallback_end_start(t, dict, ord, allow, p) ==
    LET m == PAT_ENG(Slice(t, p, Len(t)))
        stops == {j \in (p + 1)..(Len(t) - 1) : scan_stop(t, dict, ord, allow, j)}
    IN  IF m > 0 THEN p
        ELSE IF stops = {} THEN Len(t)
        ELSE Min(stops)

\* The end i of the unknown token that starts at p.
fallback_end(t, dict, ord, allow, p) ==
    LET m == PAT_ENG(Slice(t, p, Len(t)))
        stops == {j \in (p + 1)..(Len(t) - 1) : scan_stop(t, dict, ord, allow, j)}
    IN  IF m > 0 THEN p + m
        ELSE IF stops = {} THEN Len(t)
        ELSE Min(stops)

\* len(q) == 0: no dictionary word continues from pos; the unknown token
\* text[pos:i] is yielded at once and i becomes the frontier.
Fallback ==
    /\ pc = "resolve"
    /\ Len(q) = 0
    /\ LET i == fallback_end(otext, custom_dict, order, allow_pos, pos)
       IN  /\ graph' = [graph EXCEPT ![pos] = Append(@, i)]
           /\ yielded' = Append(yielded, Slice(otext, pos, i))
           /\ last_pos' = i
           /\ q' = heappush(q, i)
    /\ pc' = "while"
    /\ UNCHANGED <<kept, seg_vars, caller, otext, allow_pos, pos, pp>>

\* len(q) >= 2: still ambiguous, nothing is emitted in this turn.
Ambiguous ==
    /\ pc = "resolve"
    /\ Len(q) >= 2
    /\ pc' = "while"
    /\ UNCHANGED <<kept, seg_vars, caller, cut_vars>>

\* The loop condition fails (q[0] on an empty heap is an error).
onecut_over == pc = "while" /\ (q = <<>> \/ q[1] >= Len(otext))

\* ----------------------------------------------------------------- segment
\* long_text without the right window.
long_text_limit(n) == n >= TEXT_LIMIT

\* The test of the chunking loop, and the negation of the test for a short text.
long_text(n) == n >= TEXT_LIMIT + TEXT_SCAN_RIGHT

\* empty_input without the isinstance test.
empty_input_falsy(a) == ~a.truthy

\* not text or not isinstance(text, str)
empty_input(a) == ~a.truthy \/ ~a.isstr

\* segment(text, custom_dict, safe_mode), up to its first call of _onecut or
\* to the chunking loop.  The call may follow an earlier call on the same
\* arguments, whose result is kept for comparison.  A value that is not a
\* string and passes the first test fails in len() or in tcc_pos.
Call(mode, ord) ==
    /\ pc \in {"idle", "done"}
    /\ prev' = IF pc = "done"
               THEN [has |-> TRUE, safe_mode |-> safe_mode, order |-> order,
                     result |-> result]
               ELSE prev
    /\ safe_mode' = mode
    /\ order' = ord
    /\ custom_dict' = IF dict_arg.given THEN dict_arg.words ELSE DEFAULT_DICT_TRIE
    /\ text_parts' = <<>>
    /\ sample' = <<>>
    /\ cut_pos' = 0
    /\ tokens' = <<>>
    /\ part_idx' = 0
    /\ result' = <<>>
    /\ text' = arg.val
    /\ IF empty_input(arg) \/ ~arg.isstr
       THEN /\ pc' = IF empty_input(arg) THEN "done" ELSE "error"
            /\ otext' = <<>> /\ allow_pos' = {} /\ graph' = EmptyGraph /\ q' = <<>>
            /\ last_pos' = 0 /\ pos' = 0 /\ pp' = <<>> /\ yielded' = <<>>
            /\ caller' = "direct"
       ELSE IF ~mode
       THEN onecut_begin(arg.val, "direct")
       ELSE IF ~long_text(Len(arg.val))
       THEN onecut_begin(arg.val, "short")
       ELSE /\ pc' = "chunk"
            /\ otext' = <<>> /\ allow_pos' = {} /\ graph' = EmptyGraph /\ q' = <<>>
            /\ last_pos' = 0 /\ pos' = 0 /\ pp' = <<>> /\ yielded' = <<>>
            /\ caller' = "part"
    /\ UNCHANGED <<arg, dict_arg, limits, num_vars>>

\* return list(_onecut(text, custom_dict)), in direct mode or for a short text.
ReturnDirect ==
    /\ onecut_over
    /\ caller \in {"direct", "short"}
    /\ IF q = <<>> THEN pc' = "error" /\ result' = result
       ELSE pc' = "done" /\ result' = yielded
    /\ UNCHANGED <<kept, text, custom_dict, text_parts, sample, cut_pos, tokens,
                   part_idx, caller, cut_vars>>

\* sample.rfind(" "): the 0-based index of the last space, -1 when none.
rfind_space(s) ==
    LET at == {j \in DOMAIN s : s[j] = " "}
    IN  IF at = {} THEN -1 ELSE (CHOOSE j \in at : \A k \in at : k <= j) - 1

\* sample_start with the left window added to the limit.
sample_start_plus == TEXT_LIMIT + TEXT_SCAN_LEFT

sample_start == TEXT_LIMIT - TEXT_SCAN_LEFT

sample_end == TEXT_LIMIT + TEXT_SCAN_RIGHT

\* The chunking loop when the window holds a space: cut_pos = space_idx + 1.
ChunkBySpace ==
    /\ pc = "chunk"
    /\ long_text(Len(text))
    /\ LET smp == Slice(text, sample_start, sample_end)
           space_idx == rfind_space(smp)
       IN  /\ space_idx >= 0
           /\ sample' = smp
           /\ cut_pos' = space_idx + 1
           /\ text_parts' = Append(text_parts, Slice(text, 0, space_idx + 1))
           /\ text' = Slice(text, space_idx + 1, Len(text))
    /\ UNCHANGED <<kept, pc, custom_dict, tokens, part_idx, result, caller, cut_vars>>

\* The chunking loop when the window holds no space: the window is segmented.
ChunkSample ==
    /\ pc = "chunk"
    /\ long_text(Len(text))
    /\ LET smp == Slice(text, sample_start, sample_end)
       IN  /\ rfind_space(smp) < 0
           /\ sample' = smp
           /\ onecut_begin(smp, "sample")
    /\ UNCHANGED <<kept, text, custom_dict, text_parts, cut_pos, tokens, part_idx, result>>

RECURSIVE token_max_scan(_, _, _)
\* The loop that looks for the longest token: token_max_len is set to 0 in
\* every turn, so every non-empty token becomes the new maximum.
token_max_scan(ts, j, token_max_idx) ==
    IF j >= Len(ts) THEN token_max_idx
    ELSE LET token_max_len == 0
         IN  token_max_scan(ts, j + 1,
                            IF Len(ts[j + 1]) > token_max_len THEN j ELSE token_max_idx)

RECURSIVE tokens_len(_, _)
\* The total length of the first n tokens.
tokens_len(ts, n) == IF n <= 0 THEN 0 ELSE Len(ts[n]) + tokens_len(ts, n - 1)

\* The window's segmentation is over: the cut is put before the token the
\* scan chose, and the chunk is cut off.
ReturnSample ==
    /\ onecut_over
    /\ caller = "sample"
    /\ IF q = <<>>
       THEN /\ pc' = "error"
            /\ UNCHANGED <<tokens, cut_pos, text_parts, text>>
       ELSE LET token_max_idx == token_max_scan(yielded, 0, 0)
                cut == sample_start + tokens_len(yielded, token_max_idx)
            IN  /\ tokens' = yielded
                /\ cut_pos' = cut
                /\ text_parts' = Append(text_parts, Slice(text, 0, cut))
                /\ text' = Slice(text, cut, Len(text))
                /\ pc' = "chunk"
    /\ UNCHANGED <<kept, custom_dict, sample, part_idx, result, caller, cut_vars>>

\* The chunking loop ends: the remaining text, if any, is the last part.
ChunkEnd ==
    /\ pc = "chunk"
    /\ ~long_text(Len(text))
    /\ text_parts' = IF Len(text) > 0 THEN Append(text_parts, text) ELSE text_parts
    /\ tokens' = <<>>
    /\ part_idx' = 1
    /\ pc' = "parts"
    /\ UNCHANGED <<kept, text, custom_dict, sample, cut_pos, result, caller, cut_vars>>

\* for text_part in text_parts: the next part is segmented.
PartBegin ==
    /\ pc = "parts"
    /\ part_idx <= Len(text_parts)
    /\ onecut_begin(text_parts[part_idx], "part")
    /\ UNCHANGED <<kept, seg_vars>>

\* tokens.extend(list(_onecut(text_part, custom_dict)))
ReturnPart ==
    /\ onecut_over
    /\ caller = "part"
    /\ IF q = <<>>
       THEN /\ pc' = "error"
            /\ UNCHANGED <<tokens, part_idx>>
       ELSE /\ tokens' = tokens \o yielded
            /\ part_idx' = part_idx + 1
            /\ pc' = "parts"
    /\ UNCHANGED <<kept, text, custom_dict, text_parts, sample, cut_pos, result,
                   caller, cut_vars>>

\* return tokens
ReturnTokens ==
    /\ pc = "parts"
    /\ part_idx > Len(text_parts)
    /\ result' = tokens
    /\ pc' = "done"
    /\ UNCHANGED <<kept, text, custom_dict, text_parts, sample, cut_pos, tokens,
                   part_idx, caller, cut_vars>>

Orders == {"asc", "desc"}

Next ==
    \/ \E mode \in BOOLEAN, ord \in Orders : Call(mode, ord)
    \/ Expand
    \/ Commit
    \/ Fallback
    \/ Ambiguous
    \/ ReturnDirect
    \/ ChunkBySpace
    \/ ChunkSample
    \/ ReturnSample
    \/ ChunkEnd
    \/ PartBegin
    \/ ReturnPart
    \/ ReturnTokens

Spec == Init /\ [][Next]_vars

\* Safe mode on the long texts under the constants of the program.  The
\* dictionaries give one candidate at most per offset: with two the path
\* search of a commit takes time exponential in the length of a run.
LongDicts == {{}, {<<"k">>}, {<<"k", "k">>}}

InitLong ==
    /\ arg \in {[isstr |-> TRUE, truthy |-> TRUE, val |-> t] : t \in LongTexts}
    /\ dict_arg \in {[given |-> TRUE, words |-> W] : W \in LongDicts}
    /\ limits = PROGRAM_LIMITS
    /\ seg_idle
    /\ num_idle

NextLong ==
    \/ Call(TRUE, "asc")
    \/ Expand
    \/ Commit
    \/ Fallback
    \/ ReturnDirect
    \/ ChunkBySpace
    \/ ChunkSample
    \/ ReturnSample
    \/ ChunkEnd
    \/ PartBegin
    \/ ReturnPart
    \/ ReturnTokens

SpecLong == InitLong /\ [][NextLong]_vars

\* --------------------------------------------------------- num_to_thaiword
\* The words of the reading, transliterated: _POS_CALL, _NUM_CALL, _MIL_CALL,
\* and the literals of the function body.
POS_CALL == <<"saen", "muen", "phan", "roi", "sip", "">>

NUM_CALL == <<"", "nueng", "song", "sam", "si", "ha", "hok", "chet", "paet", "kao">>

MIL_CALL == "lan"

ZERO_WORD == "sun"

YI_WORD == "yi"

ET_WORD == "et"

MILLION == 1000000

\* The numbers read: k millions plus r, for k up to MaxMillions and r up to
\* MaxRem or the largest remainder.
MaxMillions == 3

MaxRem == 25

NumInputs ==
    {k * MILLION + r : k \in 0..MaxMillions, r \in (0..MaxRem) \cup {MILLION - 1}}

RECURSIVE Pow10(_)
Pow10(e) == IF e <= 0 THEN 1 ELSE 10 * Pow10(e - 1)

\* ret += w, on the list of words: the empty string adds nothing.
Join(r, w) == IF w = "" THEN r ELSE Append(r, w)

InitNum ==
    /\ arg = [isstr |-> TRUE, truthy |-> FALSE, val |-> <<>>]
    /\ dict_arg = [given |-> FALSE, words |-> {}]
    /\ limits = PROGRAM_LIMITS
    /\ seg_idle
    /\ n_arg \in NumInputs
    /\ number = n_arg
    /\ divider_exp = 0
    /\ npos = 0
    /\ ret = <<>>
    /\ nstack = <<>>
    /\ npc = "call"

\* num_to_thaiword(number) up to the loop: zero is read at once; above one
\* million the function first calls itself on the millions, and the caller
\* waits with its number.
NumEnter ==
    /\ npc = "call"
    /\ IF number = 0
       THEN /\ ret' = <<ZERO_WORD>>
            /\ npc' = "return"
            /\ UNCHANGED <<number, divider_exp, npos, nstack>>
       ELSE IF number > MILLION
       THEN /\ nstack' = Append(nstack, number)
            /\ number' = number \div MILLION
            /\ ret' = <<>>
            /\ npc' = "call"
            /\ UNCHANGED <<divider_exp, npos>>
       ELSE /\ ret' = <<>>
            /\ divider_exp' = 5
            /\ npos' = 0
            /\ npc' = "loop"
            /\ UNCHANGED <<number, nstack>>
    /\ UNCHANGED <<n_arg, seg_vars, cut_vars, arg, dict_arg, limits, safe_mode, order, prev, pc, caller>>

\* The word one turn of the loop adds for the digit d; "!" when the digit is
\* no index of _NUM_CALL.
digit_word(d, e, r) ==
    IF e = 1 /\ d = 2 THEN YI_WORD
    ELSE IF e = 1 /\ d = 1 THEN ""
    ELSE IF e = 0 /\ d = 1 /\ r # <<>> THEN ET_WORD
    ELSE IF d \in 0..(Len(NUM_CALL) - 1) THEN NUM_CALL[d + 1]
    ELSE "!"

\* One turn of the while loop: the digit at the divider is read.
NumDigit ==
    /\ npc = "loop"
    /\ number > 0
    /\ LET d == number \div Pow10(divider_exp)
           w == digit_word(d, divider_exp, ret)
       IN  IF w = "!" \/ (d # 0 /\ npos >= Len(POS_CALL)) \/ divider_exp < 0
           THEN /\ npc' = "error"
                /\ UNCHANGED <<number, divider_exp, npos, ret>>
           ELSE /\ ret' = IF d # 0 THEN Join(Join(ret, w), POS_CALL[npos + 1])
                          ELSE Join(ret, w)
                /\ number' = number % Pow10(divider_exp)
                /\ divider_exp' = divider_exp - 1
                /\ npos' = npos + 1
                /\ npc' = "loop"
    /\ UNCHANGED <<n_arg, nstack, seg_vars, cut_vars, arg, dict_arg, limits, safe_mode, order,
                   prev, pc, caller>>

\* The loop ends: return ret.
NumLoopEnd ==
    /\ npc = "loop"
    /\ number <= 0
    /\ npc' = "return"
    /\ UNCHANGED <<n_arg, number, divider_exp, npos, ret, nstack, seg_vars, cut_vars,
                   arg, dict_arg, limits, safe_mode, order, prev, pc, caller>>

\* return ret: to the caller waiting for the millions, which adds _MIL_CALL
\* and goes on with the rest of its number, or out of the first call.
NumReturn ==
    /\ npc = "return"
    /\ IF nstack = <<>>
       THEN /\ npc' = "done"
            /\ UNCHANGED <<number, divider_exp, npos, ret, nstack>>
       ELSE /\ ret' = Append(ret, MIL_CALL)
            /\ number' = nstack[Len(nstack)] % MILLION
            /\ nstack' = SubSeq(nstack, 1, Len(nstack) - 1)
            /\ divider_exp' = 5
            /\ npos' = 0
            /\ npc' = "loop"
    /\ UNCHANGED <<n_arg, seg_vars, cut_vars, arg, dict_arg, limits, safe_mode, order, prev, pc,
                   caller>>

NextNum ==
    \/ NumEnter
    \/ NumDigit
    \/ NumLoopEnd
    \/ NumReturn

SpecNum == InitNum /\ [][NextNum]_vars

\* ------------------------------------------------------------------ claims
\* The offsets of the token boundaries of a token list: 0 and the end of
\* each token.
boundaries(ts) == {tokens_len(ts, n) : n \in 0..Len(ts)}

\* C1: when segment returns on a string, in direct mode and in safe mode, the
\* tokens returned, joined in order, are the input text.
C1_Lossless == (pc = "done" /\ arg.isstr) => Concat(result) = arg.val

\* A safe-mode call that cut the text into chunks, committed a dictionary
\* path and returned several tokens.
C1_Witness ==
    /\ pc = "done" /\ arg.isstr /\ safe_mode
    /\ Len(text_parts) >= 2 /\ Len(result) >= 2 /\ pp # <<>>
    /\ Concat(result) = arg.val

\* C2: when segment returns, every offset of the input text at which a
\* returned token begins or ends is in the Boundary Set of the input text.
C2_BoundaryRespect ==
    (pc = "done" /\ arg.isstr) => boundaries(result) \subseteq tcc_pos(arg.val)

RECURSIVE Pow2(_)
Pow2(e) == IF e <= 0 THEN 1 ELSE 2 * Pow2(e - 1)

RECURSIVE weight(_, _)
\* The weight of a frontier: an offset weighs more than all the offsets
\* after it together.
weight(qq, n) == IF qq = <<>> THEN 0 ELSE Pow2(n - Head(qq)) + weight(Tail(qq), n)

\* A measure every turn of the loop of _onecut decreases.
variant ==
    IF pc = "while" THEN 2 * weight(q, Len(otext))
    ELSE IF pc = "resolve"
    THEN IF q = <<>> THEN 2 * Pow2(Len(otext) - pos) - 1
         ELSE 2 * weight(q, Len(otext)) + 1
    ELSE 0

in_loop == pc \in {"while", "resolve"}

\* C3: the loop of _onecut terminates: every step of the loop decreases a
\* measure that is never negative, a step that emits tokens moves the
\* emission cursor forward, the fallback ends the unknown token at an offset
\* i with pos < i <= len(text), no step fails, and when the loop is over the
\* least offset of the frontier and the emission cursor are len(text).
C3_Termination ==
    /\ [](/\ pc # "error"
          /\ onecut_over => (q # <<>> /\ q[1] = Len(otext) /\ last_pos = Len(otext)))
    /\ [][(in_loop /\ in_loop') =>
              /\ variant' < variant
              /\ variant' >= 0
              /\ Len(yielded') > Len(yielded) => last_pos' > last_pos
              /\ (pc = "resolve" /\ q = <<>>) =>
                     (pos < last_pos' /\ last_pos' <= Len(otext) /\ q' = <<last_pos'>>)]_vars

\* The loop is over on a text of three characters after a dictionary commit
\* and at least two tokens.
C3_Witness ==
    /\ onecut_over /\ Len(otext) >= 3 /\ pp # <<>> /\ Len(yielded) >= 2
    /\ last_pos = Len(otext)

\* C4: after the chunking loop cut at a space of the window, the cut is right
\* after the last space of the window [L-Wl, L+Wr) of the text that remained,
\* the chunk ends with that space and its length is in (L-Wl, L+Wr].
C4_SpaceCut ==
    (pc = "chunk" /\ text_parts # <<>> /\ rfind_space(sample) >= 0) =>
        LET chunk == text_parts[Len(text_parts)]
        IN  /\ cut_pos = sample_start + rfind_space(sample) + 1
            /\ chunk # <<>> /\ chunk[Len(chunk)] = " "
            /\ Len(chunk) > TEXT_LIMIT - TEXT_SCAN_LEFT
            /\ Len(chunk) <= TEXT_LIMIT + TEXT_SCAN_RIGHT

\* Two calls in a row on the same text and dictionary have returned.
two_calls == prev.has /\ pc = "done" /\ arg.isstr

\* C5 as stated: two calls in the same mode return the same tokens, whatever
\* the order in which the Prefix Dictionary lists its words in each.
C5_AnyOrder == (two_calls /\ prev.safe_mode = safe_mode) => result = prev.result

\* C5: two calls on the same text, dictionary content and mode, with the
\* Prefix Dictionary listing its words in the same order, return the same
\* tokens.
C5_Determinism ==
    (two_calls /\ prev.safe_mode = safe_mode /\ prev.order = order) =>
        result = prev.result

\* A second call in the same mode and order returned several tokens after a
\* dictionary commit.
C5_Witness ==
    /\ two_calls /\ prev.safe_mode = safe_mode /\ prev.order = order
    /\ pp # <<>> /\ Len(result) >= 2 /\ result = prev.result

\* C6: no token yielded by _onecut and no token returned by segment is empty.
C6_NonEmptyTokens ==
    /\ \A j \in DOMAIN yielded : yielded[j] # <<>>
    /\ \A j \in DOMAIN result : result[j] # <<>>

\* A call returned a token of a dictionary path and a token of the fallback.
C6_Witness ==
    /\ pc = "done" /\ pp # <<>> /\ Len(result) >= 2
    /\ \E j \in DOMAIN result : result[j] \notin custom_dict
    /\ \E j \in DOMAIN result : result[j] \in custom_dict

\* C7: on an empty string and on a value that is no string, segment fails in
\* no step and returns the empty list, in both modes and with or without a
\* dictionary.
C7_EmptyInput ==
    (~arg.isstr \/ arg.val = <<>>) => (pc \in {"idle", "done"} /\ result = <<>>)

\* A safe-mode call without a dictionary returned on a value that is no
\* string and is not falsy.
C7_Witness ==
    /\ pc = "done" /\ ~arg.isstr /\ arg.truthy /\ safe_mode /\ ~dict_arg.given
    /\ result = <<>>

\* C8: on a text shorter than L+Wr, a call in safe mode and a call in direct
\* mode, with the same dictionary, return the same tokens.
C8_ChunkEquivalence ==
    (/\ two_calls /\ prev.safe_mode # safe_mode /\ prev.order = order
     /\ Len(arg.val) < TEXT_LIMIT + TEXT_SCAN_RIGHT) =>
        result = prev.result

\* A safe-mode call on a text of L characters returned a dictionary word
\* after a direct call.
C8_Witness ==
    /\ two_calls /\ safe_mode /\ ~prev.safe_mode /\ prev.order = order
    /\ Len(arg.val) = TEXT_LIMIT /\ caller = "short"
    /\ result # <<>> /\ result = prev.result /\ pp # <<>>

\* C9: num_to_thaiword fails on no number: every digit it looks up is in
\* 0..9, and from one million on the reading holds the million word.
C9_NumToThaiword ==
    /\ npc # "error"
    /\ (npc = "loop" /\ number > 0) => (number \div Pow10(divider_exp)) \in 0..9
    /\ (npc = "done" /\ n_arg >= MILLION) => InSeq(MIL_CALL, ret)

RECURSIVE paths(_, _, _)
\* Every path of the graph from a to b, as the list of its offsets.
paths(g, a, b) ==
    IF a = b THEN {<<b>>}
    ELSE UNION {{<<a>> \o p : p \in paths(g, g[a][j], b)} : j \in DOMAIN g[a]}

\* The place of the edge (a, b) in the list of the edges of a.
edge_idx(g, a, b) == Min({j \in DOMAIN g[a] : g[a][j] = b})

\* Path p1 comes before path p2 (of the same length) in the order in which a
\* breadth-first traversal reaches them: at the first offset at which they
\* part, the edge of p1 was discovered first.
bfs_before(g, p1, p2) ==
    \/ p1 = p2
    \/ \E j \in 1..(Len(p1) - 1) :
           /\ SubSeq(p1, 1, j) = SubSeq(p2, 1, j)
           /\ edge_idx(g, p1[j], p1[j + 1]) < edge_idx(g, p2[j], p2[j + 1])

\* C10: when the frontier holds one offset r after an expansion, the step
\* emits the tokens of the edges of a path from the emission cursor to r that
\* has the fewest edges of all such paths, the first of them in breadth-first
\* order, in path order, and leaves the emission cursor at r.
C10_SingleCandidate ==
    [][(pc = "resolve" /\ Len(q) = 1) =>
           LET all == paths(graph, last_pos, q[1])
           IN  /\ pc' = "while"
               /\ pp' \in all
               /\ \A p \in all : Len(pp') <= Len(p)
               /\ \A p \in all : Len(p) = Len(pp') => bfs_before(graph, pp', p)
               /\ yielded' = yielded \o
                      [j \in 1..(Len(pp') - 1) |-> Slice(otext, pp'[j], pp'[j + 1])]
               /\ last_pos' = q[1]]_vars

\* A commit of a path of two edges out of three paths or more.
C10_Witness ==
    /\ pc = "while" /\ Len(pp) >= 3 /\ q = <<last_pos>> /\ pp[Len(pp)] = last_pos
    /\ Cardinality(paths(graph, pp[1], last_pos)) >= 3

\* The frontier holds one offset after an expansion.
one_candidate == pc = "resolve" /\ Len(q) = 1

\* The offsets the graph reaches from a.
reachable(g, a) == {v \in DOMAIN g : paths(g, a, v) # {}}

\* C11 as stated: when the frontier holds one offset r after an expansion,
\* the graph holds exactly one path from the emission cursor to r.
C11_ForcedPath ==
    one_candidate => Cardinality(paths(graph, last_pos, q[1])) = 1

\* C11: when the frontier holds one offset r after an expansion, the graph
\* holds at least one path from the emission cursor to r, and no path from
\* the emission cursor leads beyond r.
C11_PathsConverge ==
    one_candidate =>
        /\ paths(graph, last_pos, q[1]) # {}
        /\ \A v \in reachable(graph, last_pos) : v <= q[1]

\* The frontier holds one offset and two paths or more lead to it.
C11_Witness ==
    one_candidate /\ Cardinality(paths(graph, last_pos, q[1])) >= 2

\* The fallback has just yielded the unknown token text[pos:last_pos].
after_fallback == pc = "while" /\ q = <<last_pos>> /\ pos < last_pos

\* The stop rule of C12 at offset j: j is a legal cut, and a dictionary word
\* of more than two characters starts at j and ends at a legal cut, or a
\* non-Thai run starts at j.
claimed_stop(t, dict, allow, j) ==
    /\ j \in allow
    /\ \/ \E n \in 3..(Len(t) - j) :
              SubSeq(t, j + 1, j + n) \in dict /\ (j + n) \in allow
       \/ PAT_ENG(Slice(t, j, Len(t))) > 0

\* C12: an unknown token that does not start with a non-Thai run ends at the
\* first offset after pos at which the stop rule holds, and at the end of
\* the text when there is none; a dictionary word of two characters or fewer
\* never ends it.
C12_ScanStop ==
    (after_fallback /\ PAT_ENG(Slice(otext, pos, Len(otext))) = 0) =>
        LET stops == {j \in (pos + 1)..(Len(otext) - 1) :
                          claimed_stop(otext, custom_dict, allow_pos, j)}
        IN  last_pos = IF stops = {} THEN Len(otext) ELSE Min(stops)

RECURSIVE first_longest(_, _)
\* The 0-based index of the first token of greatest length among the first
\* n tokens.
first_longest(ts, n) ==
    IF n <= 1 THEN 0
    ELSE LET best == first_longest(ts, n - 1)
         IN  IF Len(ts[n]) > Len(ts[best + 1]) THEN n - 1 ELSE best

\* The chunking loop has just cut before a token of the segmented window.
after_window_cut ==
    pc = "chunk" /\ text_parts # <<>> /\ tokens # <<>> /\ rfind_space(sample) < 0

\* C13: after the chunking loop segmented a window without a space, the cut
\* is the window start plus the length of the tokens before the first token
\* of greatest length.
C13_LongestTokenCut ==
    after_window_cut =>
        cut_pos = sample_start + tokens_len(tokens, first_longest(tokens, Len(tokens)))

\* The class of the run that starts with character c: the characters that
\* may follow c in one non-Thai token.
run_class(c) ==
    IF c \in LATIN THEN LATIN
    ELSE IF c \in DIGIT THEN NUMBER_TAIL
    ELSE IF c \in BLANK THEN BLANK
    ELSE {}

C15_CursorInvariant ==
    /\ []((pc = "while" /\ q # <<>>) => last_pos <= q[1])
    /\ [][(in_loop /\ in_loop') => last_pos' >= last_pos]_vars

\* The loop condition is read with the cursor behind a frontier of two
\* offsets, after a token was emitted.
C15_Witness ==
    /\ pc = "while" /\ Len(q) >= 2 /\ 0 < last_pos /\ last_pos < q[1]
    /\ yielded # <<>>

\* The edge (p, e) is the edge of the unknown token the fallback emitted at p.
fallback_edge(p, e) ==
    /\ graph[p] = <<e>>
    /\ prefixes(custom_dict, order, Slice(otext, p, Len(otext))) = <<>>
       \/ \A w \in custom_dict :
              w \in {SubSeq(otext, p + 1, p + n) : n \in 1..(Len(otext) - p)}
                  => (p + Len(w)) \notin allow_pos
    /\ e = fallback_end(otext, custom_dict, order, allow_pos, p)

\* C16 as stated: every edge (p, e) of the graph has e > p, e in the Boundary
\* Set and text[p:e] in the dictionary.
C16_DictionaryEdges ==
    in_loop =>
        \A p \in DOMAIN graph : \A j \in DOMAIN graph[p] :
            /\ graph[p][j] > p
            /\ graph[p][j] \in allow_pos
            /\ Slice(otext, p, graph[p][j]) \in custom_dict

\* C16: every edge (p, e) of the graph has e > p, and either e is in the
\* Boundary Set and text[p:e] is a word of the dictionary, or (p, e) is the
\* edge of the unknown token the fallback emitted at p.
C16_GraphInvariant ==
    in_loop =>
        \A p \in DOMAIN graph : \A j \in DOMAIN graph[p] :
            /\ graph[p][j] > p
            /\ \/ graph[p][j] \in allow_pos /\ Slice(otext, p, graph[p][j]) \in custom_dict
               \/ fallback_edge(p, graph[p][j])

\* The graph holds a dictionary edge and the edge of an unknown token.
C16_Witness ==
    /\ in_loop
    /\ \E p \in DOMAIN graph : \E j \in DOMAIN graph[p] :
           Slice(otext, p, graph[p][j]) \in custom_dict
    /\ \E p \in DOMAIN graph : \E j \in DOMAIN graph[p] :
           Slice(otext, p, graph[p][j]) \notin custom_dict

\* C17: no offset is in the frontier twice.
C17_FrontierDedup ==
    \A j, k \in DOMAIN q : q[j] = q[k] => j = k

\* Two edges of the graph end at an offset that waits in the frontier.
C17_Witness ==
    /\ pc = "resolve"
    /\ \E p1, p2 \in DOMAIN graph :
           /\ p1 # p2
           /\ \E e \in 0..Len(otext) :
                  InSeq(e, graph[p1]) /\ InSeq(e, graph[p2]) /\ InSeq(e, q)

\* C18: no step of _onecut fails: the frontier is not empty when the loop
\* condition reads its least offset, and when it holds one offset r after an
\* expansion, r is beyond the emission cursor and the breadth-first search
\* from the cursor finds a path of the graph to r.
C18_NoInternalFailure ==
    /\ pc # "error"
    /\ pc = "while" => q # <<>>
    /\ one_candidate =>
           /\ q[1] > last_pos
           /\ bfs_paths_graph(graph, last_pos, q[1]) \in paths(graph, last_pos, q[1])

\* The frontier holds one offset two edges away from the cursor.
C18_Witness ==
    /\ one_candidate
    /\ Len(bfs_paths_graph(graph, last_pos, q[1])) >= 3

\* The chunking loop is running, a window segmentation included.
in_chunking == pc = "chunk" \/ (pc \in {"while", "resolve"} /\ caller = "sample")

\* The chunking loop cuts a chunk off in this step.
chunk_cut == in_chunking /\ pc' = "chunk" /\ text_parts' # text_parts

\* C19: in safe mode with the constants of the program (120, 20, 20), every
\* cut offset c the chunking loop chooses has 1 <= c < 140, the chunk cut off
\* is the first c characters of the remaining text and the remaining text
\* gets shorter by c; every chunk, the remainder included, is non-empty and
\* shorter than 140 characters.  The loop terminates: a cut shortens the
\* remaining text, the steps between two cuts are steps of the segmentation
\* of one window and leave the remaining text alone, no step fails, and the
\* loop leaves at most one chunk per character of the text.
\* While it runs the chunks followed by the remaining text are the original
\* text, and when it is over the chunks concatenate to the original text.
C19_ChunkingProgress ==
    /\ [](limits = PROGRAM_LIMITS /\ TEXT_LIMIT + TEXT_SCAN_RIGHT = 140)
    /\ [][chunk_cut =>
              /\ 1 <= cut_pos' /\ cut_pos' < TEXT_LIMIT + TEXT_SCAN_RIGHT
              /\ text_parts' = Append(text_parts, SubSeq(text, 1, cut_pos'))
              /\ text' = SubSeq(text, cut_pos' + 1, Len(text))
              /\ Len(text') < Len(text)]_vars
    /\ [][(in_chunking /\ ~chunk_cut /\ pc' # "parts") =>
              /\ pc' \in {"while", "resolve"} /\ caller' = "sample"
              /\ otext' = Slice(text, sample_start, sample_end)
              /\ text' = text /\ text_parts' = text_parts]_vars
    /\ [](\A j \in DOMAIN text_parts :
              1 <= Len(text_parts[j]) /\ Len(text_parts[j]) < TEXT_LIMIT + TEXT_SCAN_RIGHT)
    /\ [](in_chunking =>
              /\ Concat(text_parts) \o text = arg.val
              /\ Len(text_parts) + Len(text) <= Len(arg.val))
    /\ [](pc # "error")
    /\ [](pc = "parts" => Concat(text_parts) = arg.val)

\* The chunking loop has cut at a space at offset 1, the least cut, and
\* then before a token of the next window.
C19_Witness ==
    /\ limits = PROGRAM_LIMITS
    /\ pc = "chunk"
    /\ Len(text_parts) = 2
    /\ text_parts[1] = <<" ">>
    /\ tokens # <<>>
    /\ rfind_space(sample) < 0
    /\ cut_pos >= sample_start
    /\ Len(text_parts[2]) = cut_pos

====
